---- MODULE Spec2Model ----
(***************************************************************************)
(* Model of DNSValidatedACMCertClient (create_and_validate_acm_cert/ACM.py) *)
(*                                                                         *)
(* Strings that the code takes apart are modelled by their parts:          *)
(*   - a host name or zone name is the sequence of its '.'-separated       *)
(*     labels, so "example.com." is <<"example", "com", "">> and the empty *)
(*     string is <<"">>; joining two strings with a '.' is \o;             *)
(*   - a hosted-zone Id string is the sequence of its characters.          *)
(* The two AWS clients are black boxes: each call returns a response drawn *)
(* nondeterministically from a small set.                                  *)
(***************************************************************************)
EXTENDS Integers, Sequences, FiniteSets, TLC

VARIABLES
    domain,                     \* self.domain
    route53_zones,              \* self.route53_zones (fetched once in __init__)
    pc,                         \* position of the single thread of control
    outcome,                    \* "none" | "returned" | "raised" for the running call
    subject_alternative_names,  \* argument of request_certificate
    acm_requests,               \* calls made to acm_client.request_certificate
    response,                   \* last response of acm_client.request_certificate
    certificate_arn,            \* value returned by request_certificate
    sleep_time, timeout,        \* arguments of wait_for_certificate_validation
    status, elapsed_time,       \* locals of wait_for_certificate_validation
    polls, sleeps,              \* calls of get_certificate_status / time.sleep so far
    domain_validation_records,  \* what get_domain_validation_records returned
    unique_changes,             \* local of create_domain_validation_records
    idx,                        \* number of completed iterations of the for loop
    submitted,                  \* calls made to change_resource_record_sets
    printed,                    \* success / failure lines printed by the loop
    validation_dns_record,      \* argument of a direct get_hosted_zone_id call
    hosted_zone_id              \* value returned by that call

vars == <<domain, route53_zones, pc, outcome, subject_alternative_names,
          acm_requests, response, certificate_arn, sleep_time, timeout, status,
          elapsed_time, polls, sleeps, domain_validation_records,
          unique_changes, idx, submitted, printed, validation_dns_record,
          hosted_zone_id>>

requestVars == <<subject_alternative_names, acm_requests, response, certificate_arn>>
waitVars    == <<sleep_time, timeout, status, elapsed_time, polls, sleeps>>
recordVars  == <<domain_validation_records, unique_changes, idx, submitted, printed>>
zoneVars    == <<validation_dns_record, hosted_zone_id>>

(***************************************************************************)
(* Bounds of the model                                                     *)
(***************************************************************************)
MaxZones   == 2      \* hosted zones in the cached listing
MaxSAN     == 2      \* subject alternative names in one request
MaxRecords == 3      \* domain validation options returned by the CA
MaxSleep   == 5      \* largest sleep_time tried
MaxTimeout == 12     \* largest timeout tried besides the default

(***************************************************************************)
(* Program constants                                                       *)
(***************************************************************************)
DefaultSleepTime == 5
DefaultTimeout   == 600
TTL              == 300

None    == "None"
PENDING == "PENDING_VALIDATION"
Statuses == {PENDING, "ISSUED", "FAILED", "VALIDATION_TIMED_OUT"}

(***************************************************************************)
(* Input universes                                                         *)
(***************************************************************************)
Domains == {"www.example.com"}
AltNames == {"api.example.com", "*.example.com"}
Arns == {"arn:aws:acm:cert/1"}
HttpStatusCodes == {200, 202, 400, 500}

NameA == <<"_a", "www", "example", "com", "">>      \* "_a.www.example.com."
NameB == <<"_b", "api", "example", "co", "uk", "">> \* "_b.api.example.co.uk."
HostNames == {NameA, NameB,
              <<"www", "example", "com">>,          \* "www.example.com"
              <<"example", "co", "uk">>,            \* "example.co.uk"
              <<"co", "uk">>,                       \* a bare public suffix
              <<"db", "localhost">>}                \* no public suffix at all

ZoneUniverse ==
    { [Name |-> <<"example", "com", "">>,      Id |-> <<"/", "h", "z", "/", "Z", "1">>],
      [Name |-> <<"example", "com", "">>,      Id |-> <<"/", "h", "z", "/", "Z", "2">>],
      [Name |-> <<"example", "co", "uk", "">>, Id |-> <<"Z", "3">>] }

ValidationOptions ==
    { [DomainName |-> "example.com",
       ResourceRecord |-> [Type |-> "CNAME", Name |-> NameA, Value |-> "v1"]],
      [DomainName |-> "*.example.com",
       ResourceRecord |-> [Type |-> "CNAME", Name |-> NameA, Value |-> "v1"]],
      [DomainName |-> "www.example.com",
       ResourceRecord |-> [Type |-> "CNAME", Name |-> NameA, Value |-> "v2"]],
      [DomainName |-> "api.example.co.uk",
       ResourceRecord |-> [Type |-> "TXT", Name |-> NameB, Value |-> "v1"]] }

SeqsUpTo(S, n) == UNION { [1..k -> S] : k \in 0..n }

WaitArguments ==
    ((1..MaxSleep) \X (0..MaxTimeout)) \cup {<<DefaultSleepTime, DefaultTimeout>>}

(***************************************************************************)
(* aws_helpers.response_succeeded: a response succeeded when its HTTP      *)
(* status code is a 2xx                                                    *)
(***************************************************************************)
response_succeeded(resp) ==
    resp.ResponseMetadata.HTTPStatusCode \in 200..299

CAResponses ==
    [ResponseMetadata : [HTTPStatusCode : HttpStatusCodes],
     CertificateArn : Arns \cup {None}]

DNSResponses == [ResponseMetadata : [HTTPStatusCode : HttpStatusCodes]]

(***************************************************************************)
(* request_certificate                                                     *)
(***************************************************************************)
get_certificate_arn(resp) == resp.CertificateArn

\* variant: the alternative names are passed even when the list is empty
request_certificate_call_always_san(san) ==
    [DomainName |-> domain, ValidationMethod |-> "DNS",
     SubjectAlternativeNames |-> san]

\* the keyword arguments of the one acm_client.request_certificate call
request_certificate_call(san) ==
    IF Len(san) > 0
    THEN [DomainName |-> domain, ValidationMethod |-> "DNS",
          SubjectAlternativeNames |-> san]
    ELSE [DomainName |-> domain, ValidationMethod |-> "DNS"]

\* variant: the ARN of the response is returned without looking at its status
request_certificate_result_unchecked(resp) == get_certificate_arn(resp)

\* the value returned, None when the function falls off its end
request_certificate_result(resp) ==
    IF response_succeeded(resp) THEN get_certificate_arn(resp) ELSE None

request_certificate(san, resp) ==
    /\ pc = "idle"
    /\ subject_alternative_names' = san
    /\ acm_requests' = Append(acm_requests, request_certificate_call(san))
    /\ response' = resp
    /\ certificate_arn' = request_certificate_result(resp)
    /\ outcome' = "returned"
    /\ pc' = "request_done"
    /\ UNCHANGED <<domain, route53_zones, waitVars, recordVars, zoneVars>>

(***************************************************************************)
(* wait_for_certificate_validation                                         *)
(***************************************************************************)
\* lines 47-48: the first status poll
wait_call(st, to, s) ==
    /\ pc = "idle"
    /\ sleep_time' = st
    /\ timeout' = to
    /\ status' = s
    /\ polls' = 1
    /\ sleeps' = 0
    /\ elapsed_time' = 0
    /\ pc' = "wait_loop"
    /\ UNCHANGED <<domain, route53_zones, outcome, requestVars, recordVars, zoneVars>>

\* variant: the loop goes on until the certificate is issued
wait_loop_condition_until_issued == status # "ISSUED"

\* line 49
wait_loop_condition == status = PENDING

\* variant: the timeout is reached, not exceeded
wait_timed_out_at_timeout == elapsed_time >= timeout

\* variant: one more interval is granted
wait_timed_out_one_late == elapsed_time > timeout + sleep_time

\* line 50
wait_timed_out == elapsed_time > timeout

\* lines 49-51: the loop is entered and the timeout is found exceeded
wait_raise ==
    /\ pc = "wait_loop"
    /\ wait_loop_condition
    /\ wait_timed_out
    /\ outcome' = "raised"
    /\ pc' = "wait_done"
    /\ UNCHANGED <<domain, route53_zones, requestVars, waitVars, recordVars, zoneVars>>

\* lines 49-55: one full iteration: sleep, poll again, add to the elapsed time
wait_iterate(s) ==
    /\ pc = "wait_loop"
    /\ wait_loop_condition
    /\ ~wait_timed_out
    /\ sleeps' = sleeps + 1
    /\ status' = s
    /\ polls' = polls + 1
    /\ elapsed_time' = elapsed_time + sleep_time
    /\ UNCHANGED <<domain, route53_zones, pc, outcome, requestVars, sleep_time,
                   timeout, recordVars, zoneVars>>

\* line 49: the loop condition is false, the function returns
wait_return ==
    /\ pc = "wait_loop"
    /\ ~wait_loop_condition
    /\ outcome' = "returned"
    /\ pc' = "wait_done"
    /\ UNCHANGED <<domain, route53_zones, requestVars, waitVars, recordVars, zoneVars>>

(***************************************************************************)
(* get_hosted_zone_id and its nested helpers                               *)
(***************************************************************************)
\* the public suffixes tldextract knows of, each as its labels
PublicSuffixes == {<<"com">>, <<"uk">>, <<"co", "uk">>}

RECURSIVE StripTrailingDots(_)
StripTrailingDots(host) ==
    IF Len(host) > 1 /\ host[Len(host)] = ""
    THEN StripTrailingDots(SubSeq(host, 1, Len(host) - 1))
    ELSE host

LastLabels(host, k) == SubSeq(host, Len(host) - k + 1, Len(host))

\* tldextract.extract: the longest public suffix the host ends with is the
\* suffix ("" when there is none), the label before it is the domain
tldextract_extract(host) ==
    LET h == StripTrailingDots(host)
        ks == {k \in 1..Len(h) : LastLabels(h, k) \in PublicSuffixes}
        k == IF ks = {} THEN 0 ELSE CHOOSE m \in ks : \A n \in ks : n <= m
    IN  [subdomain |-> IF Len(h) - k > 1 THEN SubSeq(h, 1, Len(h) - k - 1) ELSE <<"">>,
         domain    |-> IF Len(h) > k THEN <<h[Len(h) - k]>> ELSE <<"">>,
         suffix    |-> IF k = 0 THEN <<"">> ELSE LastLabels(h, k)]

\* "%s.%s" % (domain, suffix)
get_domain_from_host(host) ==
    LET domain_tld_info == tldextract_extract(host)
    IN  domain_tld_info.domain \o domain_tld_info.suffix

\* zone.get('Name') == "%s." % (domain)
domain_matches_hosted_zone(dom, zone) == zone.Name = dom \o <<"">>

\* str.split('/')
RECURSIVE split(_)
split(str) ==
    LET slashes == {i \in 1..Len(str) : str[i] = "/"}
    IN  IF slashes = {} THEN <<str>>
        ELSE LET i == CHOOSE m \in slashes : \A n \in slashes : m <= n
             IN  <<SubSeq(str, 1, i - 1)>> \o split(SubSeq(str, i + 1, Len(str)))

\* zone_id_string.split('/')[-1]
get_zone_id_from_id_string(zone_id_string) ==
    LET parts == split(zone_id_string) IN parts[Len(parts)]

\* lines 85-90: the zones of the cached listing that match, in listing order
target_record(record) ==
    LET hosted_zone_domain == get_domain_from_host(record)
    IN  SelectSeq(route53_zones.HostedZones,
                  LAMBDA zone : domain_matches_hosted_zone(hosted_zone_domain, zone))

\* line 92: target_record[0] raises IndexError on an empty list
get_hosted_zone_id_raises(record) == target_record(record) = <<>>

\* variant: the last matching zone is taken
get_hosted_zone_id_value_last(record) ==
    get_zone_id_from_id_string(
        target_record(record)[Len(target_record(record))].Id)

\* line 92, when it does not raise
get_hosted_zone_id_value(record) ==
    get_zone_id_from_id_string(target_record(record)[1].Id)

\* a direct call of get_hosted_zone_id
get_hosted_zone_id(record) ==
    /\ pc = "idle"
    /\ validation_dns_record' = record
    /\ IF get_hosted_zone_id_raises(record)
       THEN /\ outcome' = "raised"
            /\ UNCHANGED hosted_zone_id
       ELSE /\ outcome' = "returned"
            /\ hosted_zone_id' = get_hosted_zone_id_value(record)
    /\ pc' = "zone_done"
    /\ UNCHANGED <<domain, route53_zones, requestVars, waitVars, recordVars>>

(***************************************************************************)
(* create_domain_validation_records and its helpers                        *)
(***************************************************************************)
get_resource_record_data(r) == <<r.Type, r.Name, r.Value>>

create_dns_record_set(record) ==
    LET data == get_resource_record_data(record.ResourceRecord)
    IN  [Action |-> "UPSERT",
         ResourceRecordSet |->
            [Name |-> data[2],
             Type |-> data[1],
             ResourceRecords |-> <<[Value |-> data[3]]>>,
             TTL |-> TTL]]

\* elements of a list, as `obj in unique_list` sees them
Elems(list) == {list[i] : i \in 1..Len(list)}

RECURSIVE remove_duplicates_from(_, _)
remove_duplicates_from(original_list, unique_list) ==
    IF original_list = <<>> THEN unique_list
    ELSE LET obj == Head(original_list)
         IN  remove_duplicates_from(Tail(original_list),
                 IF obj \notin Elems(unique_list)
                 THEN Append(unique_list, obj) ELSE unique_list)

\* variant: of equal changes the last one is kept
RECURSIVE remove_duplicate_keep_last(_)
remove_duplicate_keep_last(original_list) ==
    IF original_list = <<>> THEN <<>>
    ELSE IF Head(original_list) \in Elems(Tail(original_list))
         THEN remove_duplicate_keep_last(Tail(original_list))
         ELSE <<Head(original_list)>> \o remove_duplicate_keep_last(Tail(original_list))

remove_duplicate_upsert_records(original_list) ==
    remove_duplicates_from(original_list, <<>>)

\* lines 131-134
changes_of(records) == [i \in 1..Len(records) |-> create_dns_record_set(records[i])]

\* variant: the loop runs over the changes as built, duplicates included
create_records_call_all_changes(records) ==
    /\ pc = "idle"
    /\ domain_validation_records' = records
    /\ unique_changes' = changes_of(records)
    /\ idx' = 0
    /\ submitted' = <<>>
    /\ printed' = <<>>
    /\ pc' = "records_loop"
    /\ UNCHANGED <<domain, route53_zones, outcome, requestVars, waitVars, zoneVars>>

\* lines 129-135: fetch the validation options, build and deduplicate the changes
create_records_call(records) ==
    /\ pc = "idle"
    /\ domain_validation_records' = records
    /\ unique_changes' = remove_duplicate_upsert_records(changes_of(records))
    /\ idx' = 0
    /\ submitted' = <<>>
    /\ printed' = <<>>
    /\ pc' = "records_loop"
    /\ UNCHANGED <<domain, route53_zones, outcome, requestVars, waitVars, zoneVars>>

\* the change the for loop is at
current_change == unique_changes[idx + 1]

\* variant: a change without a zone is skipped
create_records_zone_missing_skip ==
    /\ pc = "records_loop"
    /\ idx < Len(unique_changes)
    /\ get_hosted_zone_id_raises(current_change.ResourceRecordSet.Name)
    /\ idx' = idx + 1
    /\ UNCHANGED <<domain, route53_zones, pc, outcome, requestVars, waitVars,
                   domain_validation_records, unique_changes, submitted, printed,
                   zoneVars>>

\* lines 137-138: the zone lookup raises, nothing catches it
create_records_zone_missing ==
    /\ pc = "records_loop"
    /\ idx < Len(unique_changes)
    /\ get_hosted_zone_id_raises(current_change.ResourceRecordSet.Name)
    /\ outcome' = "raised"
    /\ pc' = "records_done"
    /\ UNCHANGED <<domain, route53_zones, requestVars, waitVars, recordVars, zoneVars>>

\* variant: the first failed submission ends the loop
create_records_submit_stop_on_failure(resp) ==
    /\ pc = "records_loop"
    /\ idx < Len(unique_changes)
    /\ LET change == current_change
           record_name == change.ResourceRecordSet.Name
       IN  /\ ~get_hosted_zone_id_raises(record_name)
           /\ submitted' = Append(submitted,
                  [HostedZoneId |-> get_hosted_zone_id_value(record_name),
                   ChangeBatch |-> [Changes |-> <<change>>]])
           /\ printed' = Append(printed,
                  IF response_succeeded(resp)
                  THEN <<"Successfully created", record_name>>
                  ELSE <<"Failed to create", record_name>>)
    /\ idx' = idx + 1
    /\ IF response_succeeded(resp)
       THEN UNCHANGED <<pc, outcome>>
       ELSE pc' = "records_done" /\ outcome' = "returned"
    /\ UNCHANGED <<domain, route53_zones, requestVars, waitVars,
                   domain_validation_records, unique_changes, zoneVars>>

\* lines 137-148: one iteration that reaches the DNS service
create_records_submit(resp) ==
    /\ pc = "records_loop"
    /\ idx < Len(unique_changes)
    /\ LET change == current_change
           record_name == change.ResourceRecordSet.Name
       IN  /\ ~get_hosted_zone_id_raises(record_name)
           /\ submitted' = Append(submitted,
                  [HostedZoneId |-> get_hosted_zone_id_value(record_name),
                   ChangeBatch |-> [Changes |-> <<change>>]])
           /\ printed' = Append(printed,
                  IF response_succeeded(resp)
                  THEN <<"Successfully created", record_name>>
                  ELSE <<"Failed to create", record_name>>)
    /\ idx' = idx + 1
    /\ UNCHANGED <<domain, route53_zones, pc, outcome, requestVars, waitVars,
                   domain_validation_records, unique_changes, zoneVars>>

\* the for loop is exhausted
create_records_return ==
    /\ pc = "records_loop"
    /\ idx = Len(unique_changes)
    /\ outcome' = "returned"
    /\ pc' = "records_done"
    /\ UNCHANGED <<domain, route53_zones, requestVars, waitVars, recordVars, zoneVars>>

(***************************************************************************)
(* The client object and its caller                                        *)
(***************************************************************************)
NoCall ==
    /\ pc = "idle"
    /\ outcome = "none"
    /\ subject_alternative_names = <<>>
    /\ acm_requests = <<>>
    /\ response = None
    /\ certificate_arn = None
    /\ sleep_time = 0 /\ timeout = 0
    /\ status = None
    /\ elapsed_time = 0 /\ polls = 0 /\ sleeps = 0
    /\ domain_validation_records = <<>>
    /\ unique_changes = <<>>
    /\ idx = 0
    /\ submitted = <<>>
    /\ printed = <<>>
    /\ validation_dns_record = <<"">>
    /\ hosted_zone_id = <<>>

\* __init__: the hosted zones are listed once and kept
Init ==
    /\ domain \in Domains
    /\ route53_zones \in [HostedZones : SeqsUpTo(ZoneUniverse, MaxZones)]
    /\ NoCall

Done == pc \in {"request_done", "wait_done", "records_done", "zone_done"}

\* the call is over; the caller may make another
finish ==
    /\ Done
    /\ pc' = "idle"
    /\ outcome' = "none"
    /\ subject_alternative_names' = <<>>
    /\ acm_requests' = <<>>
    /\ response' = None
    /\ certificate_arn' = None
    /\ sleep_time' = 0 /\ timeout' = 0
    /\ status' = None
    /\ elapsed_time' = 0 /\ polls' = 0 /\ sleeps' = 0
    /\ domain_validation_records' = <<>>
    /\ unique_changes' = <<>>
    /\ idx' = 0
    /\ submitted' = <<>>
    /\ printed' = <<>>
    /\ validation_dns_record' = <<"">>
    /\ hosted_zone_id' = <<>>
    /\ UNCHANGED <<domain, route53_zones>>

WaitNext ==
    \/ \E a \in WaitArguments, s \in Statuses : wait_call(a[1], a[2], s)
    \/ wait_raise
    \/ \E s \in Statuses : wait_iterate(s)
    \/ wait_return

Next ==
    \/ \E san \in SeqsUpTo(AltNames, MaxSAN), resp \in CAResponses :
          request_certificate(san, resp)
    \/ WaitNext
    \/ \E record \in HostNames : get_hosted_zone_id(record)
    \/ \E records \in SeqsUpTo(ValidationOptions, MaxRecords) :
          create_records_call(records)
    \/ create_records_zone_missing
    \/ \E resp \in DNSResponses : create_records_submit(resp)
    \/ create_records_return
    \/ finish

Spec == Init /\ [][Next]_vars

\* the caller's thread is never suspended for good: a started wait goes on
WaitSpec == Init /\ [][WaitNext \/ finish]_vars /\ WF_vars(WaitNext)

TypeOK ==
    /\ pc \in {"idle", "request_done", "wait_loop", "wait_done", "records_loop",
               "records_done", "zone_done"}
    /\ outcome \in {"none", "returned", "raised"}
    /\ polls \in Nat /\ sleeps \in Nat /\ elapsed_time \in Nat
    /\ idx \in 0..Len(unique_changes)

(***************************************************************************)
(* Properties                                                              *)
(***************************************************************************)
InRecords == pc \in {"records_loop", "records_done"}
InWait    == pc \in {"wait_loop", "wait_done"}

\* the (type, name, value) triple of a validation option and of a change
OptionTriple(option) ==
    <<option.ResourceRecord.Type, option.ResourceRecord.Name,
      option.ResourceRecord.Value>>
ChangeTriple(change) ==
    <<change.ResourceRecordSet.Type, change.ResourceRecordSet.Name,
      change.ResourceRecordSet.ResourceRecords[1].Value>>
SubmittedChange(i) == submitted[i].ChangeBatch.Changes[1]

InputTriples ==
    [i \in 1..Len(domain_validation_records) |->
        OptionTriple(domain_validation_records[i])]
FirstOccurrence(triple) ==
    CHOOSE i \in 1..Len(InputTriples) :
        /\ InputTriples[i] = triple
        /\ \A j \in 1..(i - 1) : InputTriples[j] # triple

\* C1: the change set built from the validation records holds exactly one
\* change per distinct (type, name, value) triple of the input, in the order
\* in which the triples first occur in the input.
C1_OneChangePerTripleInFirstSeenOrder ==
    InRecords =>
        LET out == [i \in 1..Len(unique_changes) |-> ChangeTriple(unique_changes[i])]
        IN  /\ {out[i] : i \in 1..Len(out)}
                 = {InputTriples[i] : i \in 1..Len(InputTriples)}
            /\ \A i, j \in 1..Len(out) : i < j =>
                 /\ out[i] # out[j]
                 /\ FirstOccurrence(out[i]) < FirstOccurrence(out[j])

C1_Witness ==
    /\ pc = "records_loop"
    /\ Len(domain_validation_records) = 3
    /\ InputTriples[1] = InputTriples[3]
    /\ InputTriples[1] # InputTriples[2]
    /\ Len(unique_changes) = 2

\* C2: within one run of create_domain_validation_records no two calls of
\* change_resource_record_sets carry a change with the same (type, name,
\* value) triple.
C2_NoTripleSubmittedTwice ==
    InRecords =>
        \A i, j \in 1..Len(submitted) : i < j =>
            ChangeTriple(SubmittedChange(i)) # ChangeTriple(SubmittedChange(j))

C2_Witness ==
    /\ pc = "records_done"
    /\ outcome = "returned"
    /\ Len(submitted) = 2
    /\ Len(domain_validation_records) = 3
    /\ \E i, j \in 1..3 : i < j /\ InputTriples[i] = InputTriples[j]

AlwaysPendingDefaultCase ==
    InWait /\ sleep_time = 5 /\ timeout = 10 /\ status = PENDING

\* C3 as stated: with the status pending at every poll, sleep_time 5 and
\* timeout 10, the wait raises after the second poll and makes no third one.
C3_RaisesAfterSecondPoll ==
    AlwaysPendingDefaultCase =>
        /\ polls <= 2
        /\ outcome = "raised" => polls = 2

\* C3 amended: with the status pending at every poll, sleep_time 5 and
\* timeout 10, the wait raises after the fourth poll (three sleeps, 15 s
\* elapsed: the first elapsed time above the timeout) and makes no fifth one.
C3_RaisesAfterFourthPoll ==
    AlwaysPendingDefaultCase =>
        /\ polls <= 4
        /\ outcome = "raised" => (polls = 4 /\ sleeps = 3 /\ elapsed_time = 15)
        /\ (pc = "wait_loop" /\ polls = 4) =>
               (ENABLED wait_raise /\ ~ENABLED (\E s \in Statuses : wait_iterate(s)))
        /\ (pc = "wait_loop" /\ polls < 4) => ~ENABLED wait_raise

C3_Witness ==
    /\ pc = "wait_done"
    /\ outcome = "raised"
    /\ sleep_time = 5 /\ timeout = 10

C4_State ==
    InWait =>
        /\ sleeps = polls - 1
        /\ elapsed_time = sleeps * sleep_time
        /\ outcome = "raised" => (status = PENDING /\ polls * sleep_time > timeout)
        /\ outcome = "returned" => status # PENDING

C4_Step ==
    (pc = "wait_loop" /\ status # PENDING) =>
        /\ pc' = "wait_done"
        /\ outcome' = "returned"
        /\ polls' = polls /\ sleeps' = sleeps /\ status' = status

\* C4: after k pending polls followed by a poll with any other status, with
\* k * sleep_time <= timeout, the wait returns without error after exactly k
\* sleeps and k + 1 polls, whatever the non-pending status is: a raise only
\* happens after so many pending polls p that p * sleep_time > timeout, and a
\* non-pending status is always followed by the return, with no further
\* sleep or poll.
C4_ReturnsAfterKSleeps == [] C4_State /\ [][C4_Step]_vars

C4_Witness ==
    /\ pc = "wait_done"
    /\ outcome = "returned"
    /\ sleep_time = 5 /\ timeout = 600
    /\ status = "ISSUED"
    /\ polls = 3 /\ sleeps = 2

Resolves(change) == ~get_hosted_zone_id_raises(change.ResourceRecordSet.Name)
AllResolve == \A i \in 1..Len(unique_changes) : Resolves(unique_changes[i])

\* C5: when every record name resolves to a zone, a non-success answer of
\* the DNS service is only reported: the run never raises, and when it is
\* over every change of the deduplicated change set has been submitted, in
\* order, one submission per change, each with a line printed.
C5_FailedSubmissionDoesNotStopTheRun ==
    (InRecords /\ AllResolve) =>
        /\ outcome # "raised"
        /\ Len(submitted) = idx /\ Len(printed) = idx
        /\ \A i \in 1..Len(submitted) : SubmittedChange(i) = unique_changes[i]
        /\ pc = "records_done" => Len(submitted) = Len(unique_changes)

C5_Witness ==
    /\ pc = "records_done"
    /\ outcome = "returned"
    /\ Len(submitted) = 2
    /\ printed[1][1] = "Failed to create"
    /\ printed[2][1] = "Successfully created"

\* C6 as stated: a change whose zone is missing is the only one abandoned:
\* when the run is over, exactly the changes whose zone exists have been
\* submitted.
C6_OnlyTheZonelessChangeIsAbandoned ==
    pc = "records_done" =>
        \A i \in 1..Len(unique_changes) :
            Resolves(unique_changes[i])
                <=> (\E j \in 1..Len(submitted) : SubmittedChange(j) = unique_changes[i])

FirstZoneless ==
    CHOOSE i \in 1..Len(unique_changes) :
        /\ ~Resolves(unique_changes[i])
        /\ \A j \in 1..(i - 1) : Resolves(unique_changes[j])

\* C6 amended: a change whose zone is missing makes the lookup raise, and
\* the run ends there: the changes before the first such change have been
\* submitted, in order, and neither that change nor any later one is, even
\* one whose zone exists.
C6_ZonelessChangeAbortsTheRun ==
    (pc = "records_done" /\ ~AllResolve) =>
        /\ outcome = "raised"
        /\ idx = FirstZoneless - 1
        /\ Len(submitted) = FirstZoneless - 1
        /\ \A j \in 1..Len(submitted) : SubmittedChange(j) = unique_changes[j]

C6_Witness ==
    /\ pc = "records_done"
    /\ outcome = "raised"
    /\ Len(submitted) = 1
    /\ Len(unique_changes) = 3
    /\ Resolves(unique_changes[3])

\* the part of an Id string after its last '/', the whole string without one
LastSegment(id) ==
    LET n == CHOOSE k \in 0..Len(id) :
                 /\ \A i \in (Len(id) - k + 1)..Len(id) : id[i] # "/"
                 /\ k < Len(id) => id[Len(id) - k] = "/"
    IN  SubSeq(id, Len(id) - n + 1, Len(id))

MatchingZones ==
    {i \in 1..Len(route53_zones.HostedZones) :
        route53_zones.HostedZones[i].Name
            = get_domain_from_host(validation_dns_record) \o <<"">>}

\* C7: get_hosted_zone_id returns the last '/'-separated segment of the Id
\* of the first zone in listing order whose name is the registrable domain of
\* the record followed by '.', and raises exactly when no zone has that name.
C7_FirstMatchingZoneOrError ==
    pc = "zone_done" =>
        /\ outcome = "raised" <=> MatchingZones = {}
        /\ MatchingZones # {} =>
             LET first == CHOOSE i \in MatchingZones : \A j \in MatchingZones : i <= j
             IN  /\ outcome = "returned"
                 /\ hosted_zone_id = LastSegment(route53_zones.HostedZones[first].Id)

C7_Witness ==
    /\ pc = "zone_done"
    /\ outcome = "returned"
    /\ validation_dns_record = NameA
    /\ Cardinality(MatchingZones) = 2
    /\ route53_zones.HostedZones[1].Id # route53_zones.HostedZones[2].Id
    /\ hosted_zone_id = <<"Z", "2">>

\* C8 as stated: request_certificate raises whenever the response of the CA
\* is not a success, and returns no handle then.
C8_RaisesOnFailedResponse ==
    (pc = "request_done" /\ ~response_succeeded(response)) =>
        /\ outcome = "raised"
        /\ certificate_arn = None

\* C8 amended: request_certificate raises nothing of its own: on a response
\* that is not a success it returns normally with no handle (None), and it
\* returns the ARN of the response only when the response is a success.
C8_NoHandleOnFailedResponse ==
    pc = "request_done" =>
        /\ outcome = "returned"
        /\ ~response_succeeded(response) => certificate_arn = None
        /\ response_succeeded(response) => certificate_arn = response.CertificateArn

C8_Witness ==
    /\ pc = "request_done"
    /\ response.ResponseMetadata.HTTPStatusCode = 400
    /\ response.CertificateArn \in Arns
    /\ certificate_arn = None

\* C9: a call of request_certificate makes exactly one issuance request, for
\* the domain of the instance with validation method DNS, and the request
\* carries SubjectAlternativeNames exactly when the given list is not empty,
\* the field then being the list.
C9_OneRequestWithOptionalAlternativeNames ==
    pc = "request_done" =>
        /\ Len(acm_requests) = 1
        /\ acm_requests[1].DomainName = domain
        /\ acm_requests[1].ValidationMethod = "DNS"
        /\ "SubjectAlternativeNames" \in DOMAIN acm_requests[1]
              <=> subject_alternative_names # <<>>
        /\ subject_alternative_names # <<>> =>
              acm_requests[1].SubjectAlternativeNames = subject_alternative_names

C9_Witness ==
    /\ pc = "request_done"
    /\ subject_alternative_names = <<"api.example.com">>
    /\ acm_requests[1].SubjectAlternativeNames = <<"api.example.com">>

WaitBounds ==
    InWait =>
        /\ polls <= (timeout \div sleep_time) + 2
        /\ elapsed_time <= timeout + sleep_time

\* C10: for every sleep_time > 0, timeout >= 0 and sequence of statuses, the
\* wait ends, by returning or raising, after at most
\* floor(timeout / sleep_time) + 2 polls, and the elapsed time never exceeds
\* timeout + sleep_time.
C10_WaitTerminatesWithinBounds ==
    [] WaitBounds /\ ((pc = "wait_loop") ~> (pc = "wait_done"))

C10_Witness ==
    /\ pc = "wait_done"
    /\ outcome = "raised"
    /\ sleep_time = 3 /\ timeout = 12
    /\ polls = (timeout \div sleep_time) + 2
    /\ elapsed_time = timeout + sleep_time

====
